---- MODULE Spec2Model ----
(***************************************************************************)
(* Model of graphmodel/Model.py: Note, OrganizedNotesTable,                *)
(* MusicalTranscript, SoundEvent and Frame.                                *)
(*                                                                         *)
(* Three specifications share the variables:                               *)
(*   Spec      - one OrganizedNotesTable driven by add / sort /            *)
(*               update_delta_times, and the MusicalTranscript built of it *)
(*   SpecNote  - two Note objects compared with == and hash()              *)
(*   SpecFrame - one Frame driven by add                                   *)
(***************************************************************************)
EXTENDS Integers, Sequences, FiniteSets, TLC

VARIABLES
    table,           \* self.table: tick -> channel -> pitch -> Note
    tickOrder,       \* iteration order of the keys of self.table
    ordered,         \* self.table is an OrderedDict (sort() has replaced the dict)
    channels,        \* self.channels
    channel_coding,  \* self.channel_coding, a Python int as a sequence of bits
    tracks,          \* MusicalTranscript.tracks of the transcript built last
    error,           \* a dictionary lookup raised KeyError
    lastOp,          \* the operation executed last
    lastNote,        \* the argument of the add executed last
    stage,           \* how far the pipeline add* -> sort -> update_delta_times got:
                     \*   "adding", "sorted", "updated" while the calls came in that
                     \*   order; otherwise "dirty", or "dirty_sorted" when no add
                     \*   was called since the last sort
    adds,            \* number of add calls so far
    reordered,       \* some sort() call changed the iteration order
    noteA, noteB,    \* the two Notes compared in SpecNote
    cmp,             \* result of comparing noteA and noteB
    max_size,        \* Frame.max_size
    sound_events,    \* Frame.sound_events
    frameAdds,       \* number of Frame.add calls so far
    createdEmpty     \* the Frame was constructed with sound_events=None

tableVars == <<table, tickOrder, ordered, channels, channel_coding, tracks,
               error, lastOp, lastNote, stage, adds, reordered>>
noteVars  == <<noteA, noteB, cmp>>
frameVars == <<max_size, sound_events, frameAdds, createdEmpty>>
vars      == <<tableVars, noteVars, frameVars>>

-----------------------------------------------------------------------------
(* Bounds of the model *)

MaxAdds == 3
MaxFrameSize == 3
MaxFrameAdds == 4

(* Declared field widths of Note.encode: "bytes: 12 | 5 | 7 | 8" *)
MaxDuration == 4095
MaxChannel == 31
MaxPitch == 127
MaxVelocity == 255

(* Inputs of the table specification *)
NoteTicks == {0, 1, 4}
NoteChannels == {0, 1}
NotePitches == {60, 64}

-----------------------------------------------------------------------------
(* Python integers of unbounded width, as sequences of bits, least          *)
(* significant first, without leading zero bits; 0 is the empty sequence.   *)

RECURSIVE ToBits(_)
ToBits(n) == IF n = 0 THEN <<>> ELSE <<n % 2>> \o ToBits(n \div 2)

RECURSIVE Norm(_)
Norm(b) == IF b = <<>> THEN <<>>
           ELSE IF b[Len(b)] = 0 THEN Norm(SubSeq(b, 1, Len(b) - 1))
           ELSE b

BitAt(b, i) == IF i <= Len(b) THEN b[i] ELSE 0

MaxOf(x, y) == IF x >= y THEN x ELSE y

\* a << k
Shl(b, k) == IF b = <<>> THEN <<>> ELSE [i \in 1..k |-> 0] \o b

\* a | b
BitOr(a, b) ==
    Norm([i \in 1..MaxOf(Len(a), Len(b)) |->
             IF BitAt(a, i) = 1 \/ BitAt(b, i) = 1 THEN 1 ELSE 0])

\* a & b
BitAnd(a, b) ==
    Norm([i \in 1..MaxOf(Len(a), Len(b)) |->
             IF BitAt(a, i) = 1 /\ BitAt(b, i) = 1 THEN 1 ELSE 0])

-----------------------------------------------------------------------------
(* Note *)

\* Note.__init__
Note(timeline_tick, wait_ticks, duration_ticks, channel, pitch, velocity) ==
    [timeline_tick |-> timeline_tick,
     wait_ticks |-> wait_ticks,
     duration_ticks |-> duration_ticks,
     previous_delta_ticks |-> 0,
     next_delta_ticks |-> 0,
     channel |-> channel,
     pitch |-> pitch,
     velocity |-> velocity]

\* the commented-out encoding of line 264, which drops the velocity
encode_no_velocity(n) ==
    BitOr(BitOr(Shl(ToBits(n.duration_ticks), 20), Shl(ToBits(n.channel), 15)),
          Shl(ToBits(n.pitch), 8))

\* Note.encode
encode(n) ==
    BitOr(BitOr(BitOr(Shl(ToBits(n.duration_ticks), 20),
                      Shl(ToBits(n.channel), 15)),
                Shl(ToBits(n.pitch), 8)),
          ToBits(n.velocity))

\* Note.__hash__
Note_hash(n) == encode(n)

\* Note.__eq__
Note_eq(n, other) == encode(n) = encode(other)

NoNote == [timeline_tick |-> -1]

-----------------------------------------------------------------------------
(* Dictionaries are functions; the order in which a dictionary is iterated  *)
(* is kept only for self.table (tickOrder), where the code depends on it.   *)

EmptyDict == <<>>

\* d[k] = v
Put(d, k, v) == [x \in DOMAIN d \cup {k} |-> IF x = k THEN v ELSE d[x]]

InsertAt(s, i, x) == SubSeq(s, 1, i) \o <<x>> \o SubSeq(s, i + 1, Len(s))

SeqElems(s) == {s[i] : i \in 1..Len(s)}

IsAscending(s) == \A i \in 1..(Len(s) - 1) : s[i] < s[i + 1]

Perms(S) == {s \in [1..Cardinality(S) -> S] : \A i, j \in 1..Cardinality(S) : s[i] = s[j] => i = j}

RECURSIVE SetToSeq(_)
SetToSeq(S) == IF S = {} THEN <<>>
               ELSE LET m == CHOOSE x \in S : \A y \in S : x <= y
                    IN <<m>> \o SetToSeq(S \ {m})

-----------------------------------------------------------------------------
(* OrganizedNotesTable *)

\* OrganizedNotesTable.has_channel: self.channel_coding & (1 << channel), as a truth value
has_channel(coding, channel) == BitAnd(coding, Shl(ToBits(1), channel)) # <<>>

\* OrganizedNotesTable.add_channel, the bit mask
add_channel_coding(coding, channel) == BitOr(coding, Shl(ToBits(1), channel))

\* an add that keeps the note already stored in the cell
StoreNote_keep_first(tbl, note) ==
    LET tick == note.timeline_tick
        channel == note.channel
        pitch == note.pitch
        row == IF tick \in DOMAIN tbl THEN tbl[tick] ELSE EmptyDict
        cell == IF channel \in DOMAIN row THEN row[channel] ELSE EmptyDict
    IN IF pitch \in DOMAIN cell THEN tbl
       ELSE Put(tbl, tick, Put(row, channel, Put(cell, pitch, note)))

\* OrganizedNotesTable.add, lines 57-61: the cell of the table
StoreNote(tbl, note) ==
    LET tick == note.timeline_tick
        channel == note.channel
        pitch == note.pitch
        row == IF tick \in DOMAIN tbl THEN tbl[tick] ELSE EmptyDict
        cell == IF channel \in DOMAIN row THEN row[channel] ELSE EmptyDict
    IN Put(tbl, tick, Put(row, channel, Put(cell, pitch, note)))

\* Where a new key lands in the iteration order of self.table: at the end of
\* an OrderedDict, anywhere in a plain dict (whose order is arbitrary).
NewKeyOrders(order, isOrdered, tick) ==
    IF isOrdered THEN {Append(order, tick)}
    ELSE {InsertAt(order, i, tick) : i \in 0..Len(order)}

\* OrganizedNotesTable.get_note
get_note(tbl, tick, channel, pitch) == tbl[tick][channel][pitch]

HasNote(tbl, tick, channel, pitch) ==
    /\ tick \in DOMAIN tbl
    /\ channel \in DOMAIN tbl[tick]
    /\ pitch \in DOMAIN tbl[tick][channel]

\* sorted() left out: the items stay in iteration order
sorted_keys_unsorted(order) == order

\* sorted(..., reverse=True)
sorted_keys_descending(order) ==
    LET asc == SetToSeq(SeqElems(order))
    IN [i \in 1..Len(asc) |-> asc[Len(asc) + 1 - i]]

\* sorted(): x goes behind the keys that are not greater (the sort is stable)
InsertKey(s, x) ==
    LET n == Cardinality({i \in 1..Len(s) : s[i] <= x})
    IN InsertAt(s, n, x)

RECURSIVE SortKeys(_)
SortKeys(s) == IF s = <<>> THEN <<>>
               ELSE InsertKey(SortKeys(SubSeq(s, 1, Len(s) - 1)), s[Len(s)])

\* OrganizedNotesTable.sort: the keys of sorted(self.table.items(), key=lambda key: key[0])
sorted_keys(order) == SortKeys(order)

NoTick == -1

\* the last key instead of the first
first_tick_last(order) == IF order = <<>> THEN NoTick ELSE order[Len(order)]

\* OrganizedNotesTable.first_tick (None on an empty table)
first_tick(order) == IF order = <<>> THEN NoTick ELSE order[1]

\* previous_tick is not advanced
NextPreviousTick_stuck(tick, previous_tick) == previous_tick

\* update_delta_times, line 99
NextPreviousTick(tick, previous_tick) == tick

\* the sign of the difference swapped
next_delta_swapped(tick, note) == note.timeline_tick - tick

\* update_delta_times, line 98
next_delta(tick, note) == tick - note.timeline_tick

\* the channels of the current tick looked up at the previous tick
PrevChannels_of_current(tbl, tick, previous_tick) == DOMAIN tbl[tick]

\* update_delta_times, line 95: the channels iterated at the previous tick
PrevChannels(tbl, tick, previous_tick) == DOMAIN tbl[previous_tick]

\* update_delta_times, lines 90-93
SetPrevious(tbl, tick, previous_tick) ==
    Put(tbl, tick,
        [c \in DOMAIN tbl[tick] |->
            [p \in DOMAIN tbl[tick][c] |->
                [tbl[tick][c][p] EXCEPT
                    !.previous_delta_ticks = tbl[tick][c][p].timeline_tick - previous_tick]]])

\* update_delta_times, lines 95-98, for the channels that have a bucket at previous_tick
SetNext(tbl, tick, previous_tick) ==
    LET row == tbl[previous_tick]
        chans == PrevChannels(tbl, tick, previous_tick) \cap DOMAIN row
    IN Put(tbl, previous_tick,
           [c \in DOMAIN row |->
               IF c \in chans
               THEN [p \in DOMAIN row[c] |->
                        [row[c][p] EXCEPT !.next_delta_ticks = next_delta(tick, row[c][p])]]
               ELSE row[c]])

\* self.table[previous_tick][channel] raises KeyError
LookupFails(tbl, tick, previous_tick) ==
    \/ previous_tick \notin DOMAIN tbl
    \/ \E c \in PrevChannels(tbl, tick, previous_tick) : c \notin DOMAIN tbl[previous_tick]

\* OrganizedNotesTable.update_delta_times, the loop of line 88 from the i-th key on
RECURSIVE UpdateLoop(_, _, _, _)
UpdateLoop(tbl, order, i, previous_tick) ==
    IF i > Len(order) THEN [table |-> tbl, error |-> FALSE]
    ELSE LET tick == order[i]
             t1 == SetPrevious(tbl, tick, previous_tick)
         IN IF LookupFails(t1, tick, previous_tick)
            THEN [table |-> IF previous_tick \in DOMAIN t1
                            THEN SetNext(t1, tick, previous_tick) ELSE t1,
                  error |-> TRUE]
            ELSE UpdateLoop(SetNext(t1, tick, previous_tick), order, i + 1,
                            NextPreviousTick(tick, previous_tick))

\* OrganizedNotesTable.update_delta_times
update_delta_times(tbl, order) == UpdateLoop(tbl, order, 1, first_tick(order))

-----------------------------------------------------------------------------
(* SoundEvent and MusicalTranscript *)

\* sorted(notes, key=lambda note: note.next_delta_ticks): stable, ascending
RECURSIVE SortNotes(_)
SortNotes(notes) ==
    IF notes = <<>> THEN <<>>
    ELSE LET front == SortNotes(SubSeq(notes, 1, Len(notes) - 1))
             x == notes[Len(notes)]
             n == Cardinality({i \in 1..Len(front) :
                                  front[i].next_delta_ticks <= x.next_delta_ticks})
         IN InsertAt(front, n, x)

\* SoundEvent.__init__: the tuple self.notes
SoundEvent(notes) == SortNotes(notes)

\* the list notes of MusicalTranscript.__build__, lines 135-137: the notes of one
\* bucket in the order the bucket (a plain dict) is iterated, which is arbitrary
BucketNotes(bucket) == {[i \in 1..Len(po) |-> bucket[po[i]]] : po \in Perms(DOMAIN bucket)}

\* the track is overwritten instead of extended
TrackAppend_overwrite(tr, channel, sound_event) ==
    [tr EXCEPT ![channel] = <<sound_event>>]

\* MusicalTranscript.__build__, line 140
TrackAppend(tr, channel, sound_event) ==
    [tr EXCEPT ![channel] = Append(@, sound_event)]

\* MusicalTranscript.__build__, lines 134-140, for the channels chs of one tick.
\* trs is the set of track tables the iteration orders of the buckets allow.
RECURSIVE BuildChannels(_, _, _)
BuildChannels(row, chs, trs) ==
    IF chs = <<>> THEN trs
    ELSE BuildChannels(row, Tail(chs),
             {TrackAppend(tr, Head(chs), SoundEvent(notes)) :
                 tr \in trs, notes \in BucketNotes(row[Head(chs)])})

\* MusicalTranscript.__build__, the loop of line 133 from the i-th key on
RECURSIVE BuildTicks(_, _, _, _)
BuildTicks(tbl, order, i, trs) ==
    IF i > Len(order) THEN trs
    ELSE BuildTicks(tbl, order, i + 1,
             BuildChannels(tbl[order[i]], SetToSeq(DOMAIN tbl[order[i]]), trs))

\* MusicalTranscript.__build__, lines 131-132
EmptyTracks(chans) == [c \in SeqElems(chans) |-> <<>>]

\* MusicalTranscript.__build__: self.tracks[channel] raises KeyError
BuildFails(tbl, chans) ==
    \E t \in DOMAIN tbl : \E c \in DOMAIN tbl[t] : c \notin SeqElems(chans)

-----------------------------------------------------------------------------
(* Frame *)

\* Frame.__sizeof__
Frame_sizeof(events) == Len(events)

\* a Frame that stays full once it is over its capacity
is_full_at_least(events, size) == Frame_sizeof(events) >= size

\* Frame.is_full
is_full(events, size) == Frame_sizeof(events) = size

-----------------------------------------------------------------------------
(* The table specification *)

\* The notes passed to add: one per cell of the table, and a second, louder
\* note for one of the cells, so that an add can replace a different note.
NoteInputs ==
    {Note(t, 0, 4, c, p, 64) : t \in NoteTicks, c \in NoteChannels, p \in NotePitches}
    \cup {Note(0, 0, 4, 0, 60, 100)}

NotCompared == [done |-> FALSE, eq |-> FALSE, hash_eq |-> FALSE]

IdleNotes == /\ noteA = NoNote
             /\ noteB = NoNote
             /\ cmp = NotCompared

IdleFrame == /\ max_size = 0
             /\ sound_events = <<>>
             /\ frameAdds = 0
             /\ createdEmpty = TRUE

IdleTable == /\ table = EmptyDict
             /\ tickOrder = <<>>
             /\ ordered = FALSE
             /\ channels = <<>>
             /\ channel_coding = ToBits(0)
             /\ tracks = EmptyDict
             /\ error = FALSE
             /\ lastOp = "init"
             /\ lastNote = NoNote
             /\ stage = "adding"
             /\ adds = 0
             /\ reordered = FALSE

\* OrganizedNotesTable.__init__
Init == IdleTable /\ IdleNotes /\ IdleFrame

\* OrganizedNotesTable.add(note)
Add ==
    /\ adds < MaxAdds
    /\ \E note \in NoteInputs :
        /\ IF has_channel(channel_coding, note.channel)
           THEN UNCHANGED <<channels, channel_coding>>
           ELSE /\ channels' = Append(channels, note.channel)
                /\ channel_coding' = add_channel_coding(channel_coding, note.channel)
        /\ IF note.timeline_tick \in DOMAIN table
           THEN tickOrder' = tickOrder
           ELSE tickOrder' \in NewKeyOrders(tickOrder, ordered, note.timeline_tick)
        /\ table' = StoreNote(table, note)
        /\ lastNote' = note
    /\ adds' = adds + 1
    /\ lastOp' = "add"
    /\ stage' = IF stage = "adding" THEN "adding" ELSE "dirty"
    /\ tracks' = EmptyDict
    /\ UNCHANGED <<ordered, error, reordered, noteVars, frameVars>>

\* OrganizedNotesTable.sort()
Sort ==
    /\ tickOrder' = sorted_keys(tickOrder)
    /\ ordered' = TRUE
    /\ reordered' = (reordered \/ ~IsAscending(tickOrder))
    /\ lastOp' = "sort"
    /\ lastNote' = NoNote
    /\ stage' = CASE stage = "adding" -> "sorted"
                  [] stage = "dirty" -> "dirty_sorted"
                  [] OTHER -> stage
    /\ tracks' = EmptyDict
    /\ UNCHANGED <<table, channels, channel_coding, error, adds, noteVars, frameVars>>

\* OrganizedNotesTable.update_delta_times()
Update ==
    /\ LET r == update_delta_times(table, tickOrder)
       IN /\ table' = r.table
          /\ error' = (error \/ r.error)
    /\ lastOp' = "update"
    /\ lastNote' = NoNote
    /\ stage' = CASE stage \in {"sorted", "updated"} -> "updated"
                  [] stage = "adding" -> "dirty"
                  [] OTHER -> stage
    /\ tracks' = EmptyDict
    /\ UNCHANGED <<tickOrder, ordered, channels, channel_coding, adds, reordered,
                   noteVars, frameVars>>

\* MusicalTranscript(notes_table): __init__ and __build__
Build ==
    /\ tracks' \in BuildTicks(table, tickOrder, 1, {EmptyTracks(channels)})
    /\ error' = (error \/ BuildFails(table, channels))
    /\ lastOp' = "build"
    /\ lastNote' = NoNote
    /\ UNCHANGED <<table, tickOrder, ordered, channels, channel_coding, stage, adds,
                   reordered, noteVars, frameVars>>

Next == Add \/ Sort \/ Update \/ Build

Spec == Init /\ [][Next]_vars

-----------------------------------------------------------------------------
(* The Note specification: two Notes with fields at the ends of the declared *)
(* ranges are compared.                                                      *)

SampleDurations == {0, 1, MaxDuration}
SampleChannels == {0, 1, MaxChannel}
SamplePitches == {0, 1, MaxPitch}
SampleVelocities == {0, 1, MaxVelocity}

SampleNotes ==
    {Note(0, 0, d, c, p, v) : d \in SampleDurations, c \in SampleChannels,
                              p \in SamplePitches, v \in SampleVelocities}

\* the same notes later in the piece, after update_delta_times has set the deltas
LaterNotes ==
    {[timeline_tick |-> 4, wait_ticks |-> 1, duration_ticks |-> n.duration_ticks,
      previous_delta_ticks |-> 4, next_delta_ticks |-> 2, channel |-> n.channel,
      pitch |-> n.pitch, velocity |-> n.velocity] : n \in SampleNotes}

InitNote == /\ IdleTable
            /\ IdleFrame
            /\ noteA \in SampleNotes
            /\ noteB \in SampleNotes \cup LaterNotes
            /\ cmp = NotCompared

\* noteA == noteB and hash(noteA) == hash(noteB)
Compare ==
    /\ ~cmp.done
    /\ cmp' = [done |-> TRUE,
               eq |-> Note_eq(noteA, noteB),
               hash_eq |-> (Note_hash(noteA) = Note_hash(noteB))]
    /\ UNCHANGED <<noteA, noteB, tableVars, frameVars>>

NextNote == Compare

SpecNote == InitNote /\ [][NextNote]_vars

-----------------------------------------------------------------------------
(* The Frame specification *)

FrameEvents ==
    {SoundEvent(<<Note(0, 0, 4, 0, 60, 64)>>),
     SoundEvent(<<Note(4, 0, 4, 0, 60, 64), Note(4, 0, 4, 0, 64, 64)>>)}

\* Frame.__init__(max_size, sound_events=None)
InitFrame == /\ IdleTable
             /\ IdleNotes
             /\ max_size \in 0..MaxFrameSize
             /\ \/ sound_events = <<>> /\ createdEmpty = TRUE
                \/ sound_events \in {<<e>> : e \in FrameEvents} /\ createdEmpty = FALSE
             /\ frameAdds = 0

\* Frame.add(sound_event)
FrameAdd ==
    /\ frameAdds < MaxFrameAdds
    /\ \E e \in FrameEvents : sound_events' = sound_events \o <<e>>
    /\ frameAdds' = frameAdds + 1
    /\ UNCHANGED <<max_size, createdEmpty, tableVars, noteVars>>

NextFrame == FrameAdd

SpecFrame == InitFrame /\ [][NextFrame]_vars

-----------------------------------------------------------------------------
(* Properties *)

MinKey(S) == CHOOSE x \in S : \A y \in S : x <= y
MaxKey(S) == CHOOSE x \in S : \A y \in S : x >= y
PrevKey(S, t) == MaxKey({u \in S : u < t})
NextKey(S, t) == MinKey({u \in S : u > t})

\* the notes stored at time-position t, in all channels
NotesAt(tbl, t) == {tbl[t][c][p] : <<c, p>> \in {cp \in NoteChannels \X NotePitches :
                                                  HasNote(tbl, t, cp[1], cp[2])}}

\* the notes of the bucket (t, c)
BucketSet(tbl, t, c) == {tbl[t][c][p] : p \in DOMAIN tbl[t][c]}

\* the time-positions at which channel c has a bucket
TicksOf(tbl, c) == {t \in DOMAIN tbl : c \in DOMAIN tbl[t]}

\* the channels of the notes stored in the table
TableChannels(tbl) == UNION {DOMAIN tbl[t] : t \in DOMAIN tbl}

Triples == NoteTicks \X NoteChannels \X NotePitches

\* no add was called since the last sort
SortedSinceAdd == stage \in {"sorted", "updated", "dirty_sorted"}

\* C1: after add* -> sort -> update_delta_times, every note at the smallest
\* time-position has previous_delta_ticks 0 and every note at another
\* time-position t has previous_delta_ticks t - t_prev, t_prev being the
\* preceding time-position of the whole table.
C1_PreviousDelta ==
    stage = "updated" =>
        \A t \in DOMAIN table : \A n \in NotesAt(table, t) :
            n.previous_delta_ticks =
                IF t = MinKey(DOMAIN table) THEN 0 ELSE t - PrevKey(DOMAIN table, t)

\* three time-positions added out of order, in two channels that do not meet
C1_Witness ==
    /\ stage = "updated"
    /\ reordered
    /\ DOMAIN table = {0, 1, 4}
    /\ DOMAIN table[0] = {0}
    /\ DOMAIN table[1] = {1}
    /\ DOMAIN table[4] = {0}
    /\ \A n \in NotesAt(table, 4) : n.previous_delta_ticks = 3
    /\ \A n \in NotesAt(table, 0) : n.previous_delta_ticks = 0

\* C2: after add* -> sort -> update_delta_times, every note at a time-position
\* t other than the largest has next_delta_ticks t_next - t, and every note at
\* the largest time-position has next_delta_ticks 0.
C2_NextDelta ==
    stage = "updated" =>
        \A t \in DOMAIN table : \A n \in NotesAt(table, t) :
            n.next_delta_ticks =
                IF t = MaxKey(DOMAIN table) THEN 0 ELSE NextKey(DOMAIN table, t) - t

\* the example with ticks 0, 0, 4: a chord at tick 0, one note at tick 4
C2_Witness ==
    /\ stage = "updated"
    /\ DOMAIN table = {0, 4}
    /\ DOMAIN table[0] = {0}
    /\ DOMAIN table[0][0] = {60, 64}
    /\ DOMAIN table[4] = {0}
    /\ DOMAIN table[4][0] = {60}
    /\ table[0][0][60].next_delta_ticks = 4
    /\ table[0][0][64].next_delta_ticks = 4
    /\ table[0][0][60].previous_delta_ticks = 0
    /\ table[4][0][60].next_delta_ticks = 0
    /\ table[4][0][60].previous_delta_ticks = 4

\* C3: in a transcript built from a sorted, delta-annotated table, every bucket
\* (time-position, channel) of k notes yields exactly one SoundEvent in the
\* track of its channel, holding exactly those k notes; a track has as many
\* SoundEvents as its channel has buckets; no SoundEvent holds notes of another
\* channel.
C3_Grouping ==
    (stage = "updated" /\ lastOp = "build") =>
        /\ TableChannels(table) \subseteq DOMAIN tracks
        /\ \A c \in DOMAIN tracks :
            /\ Len(tracks[c]) = Cardinality(TicksOf(table, c))
            /\ \A t \in TicksOf(table, c) :
                   Cardinality({i \in 1..Len(tracks[c]) :
                                   /\ SeqElems(tracks[c][i]) = BucketSet(table, t, c)
                                   /\ Len(tracks[c][i]) = Cardinality(DOMAIN table[t][c])})
                       = 1
            /\ \A i \in 1..Len(tracks[c]) : \A n \in SeqElems(tracks[c][i]) :
                   n.channel = c

\* a chord in channel 0 and a note of channel 1 at the time-position of the chord
C3_Witness ==
    /\ stage = "updated"
    /\ lastOp = "build"
    /\ DOMAIN tracks = {0, 1}
    /\ Len(tracks[0]) = 1
    /\ Len(tracks[0][1]) = 2
    /\ Len(tracks[1]) = 1
    /\ Len(tracks[1][1]) = 1
    /\ tracks[1][1][1].timeline_tick = tracks[0][1][1].timeline_tick

\* C4: after add* -> sort -> update_delta_times -> build, the transcript has one
\* track per channel passed to add, no other track, and the SoundEvents of a
\* track are in strictly ascending order of time-position.
C4_TracksOrdered ==
    (stage = "updated" /\ lastOp = "build") =>
        /\ DOMAIN tracks = TableChannels(table)
        /\ DOMAIN tracks = SeqElems(channels)
        /\ \A c \in DOMAIN tracks : \A i, j \in 1..Len(tracks[c]) :
               i < j => tracks[c][i][1].timeline_tick < tracks[c][j][1].timeline_tick

\* notes added out of order, channel 1 before channel 0
C4_Witness ==
    /\ stage = "updated"
    /\ lastOp = "build"
    /\ reordered
    /\ channels = <<1, 0>>
    /\ Len(tracks[1]) = 2
    /\ Len(tracks[0]) = 1

\* C5: for Notes with fields in the declared ranges, A == B and
\* hash(A) == hash(B) hold if and only if duration_ticks, channel, pitch and
\* velocity are equal; the other fields have no influence.
C5_Identity ==
    cmp.done =>
        ((cmp.eq /\ cmp.hash_eq) <=>
            /\ noteA.duration_ticks = noteB.duration_ticks
            /\ noteA.channel = noteB.channel
            /\ noteA.pitch = noteB.pitch
            /\ noteA.velocity = noteB.velocity)

\* two equal notes at different time-positions, all fields at their maximum
C5_Witness ==
    /\ cmp.done
    /\ cmp.eq
    /\ cmp.hash_eq
    /\ noteA.timeline_tick # noteB.timeline_tick
    /\ noteA.next_delta_ticks # noteB.next_delta_ticks
    /\ noteA.duration_ticks = MaxDuration
    /\ noteA.channel = MaxChannel
    /\ noteA.pitch = MaxPitch
    /\ noteA.velocity = MaxVelocity

\* C6: sort() leaves the time-positions in ascending order and the buckets as
\* they were, and a second sort() changes nothing.
C6_SortIdempotent ==
    [][lastOp' = "sort" =>
          /\ table' = table
          /\ SeqElems(tickOrder') = DOMAIN table
          /\ Len(tickOrder') = Len(tickOrder)
          /\ IsAscending(tickOrder')
          /\ sorted_keys(tickOrder') = tickOrder']_vars

\* a sort that had three time-positions to reorder
C6_Witness ==
    /\ lastOp = "sort"
    /\ reordered
    /\ tickOrder = <<0, 1, 4>>

\* C7: a Frame created empty with max_size N is full after k adds if and only
\* if k = N; every add grows the sequence by one, also past N.
C7_FrameFullness ==
    createdEmpty =>
        /\ Frame_sizeof(sound_events) = frameAdds
        /\ is_full(sound_events, max_size) <=> (frameAdds = max_size)

\* one add past the capacity of 3: not full any more
C7_Witness ==
    /\ createdEmpty
    /\ max_size = 3
    /\ frameAdds = 4
    /\ Len(sound_events) = 4
    /\ ~is_full(sound_events, max_size)

\* C8 as stated: first_tick() on a non-empty table returns the smallest
\* time-position, whether or not sort() has been called.
C8_FirstTickSmallest ==
    table # EmptyDict => first_tick(tickOrder) = MinKey(DOMAIN table)

\* C8, amended: first_tick() on a non-empty table returns the smallest
\* time-position when no add was called since the last sort().
C8_FirstTickAfterSort ==
    (table # EmptyDict /\ SortedSinceAdd) =>
        first_tick(tickOrder) = MinKey(DOMAIN table)

\* a sort has moved the smallest of three time-positions to the front
C8_Witness ==
    /\ SortedSinceAdd
    /\ reordered
    /\ Cardinality(DOMAIN table) = 3
    /\ first_tick(tickOrder) = 0

\* C9: add stores its note under the triple (time-position, channel, pitch),
\* where get_note finds it, replacing the note stored there before, and changes
\* no entry under another triple.
C9_LastWriteWins ==
    [][lastOp' = "add" =>
          /\ HasNote(table', lastNote'.timeline_tick, lastNote'.channel, lastNote'.pitch)
          /\ get_note(table', lastNote'.timeline_tick, lastNote'.channel,
                      lastNote'.pitch) = lastNote'
          /\ \A tr \in Triples :
                 tr # <<lastNote'.timeline_tick, lastNote'.channel, lastNote'.pitch>> =>
                     /\ HasNote(table', tr[1], tr[2], tr[3])
                            <=> HasNote(table, tr[1], tr[2], tr[3])
                     /\ HasNote(table, tr[1], tr[2], tr[3]) =>
                            get_note(table', tr[1], tr[2], tr[3])
                                = get_note(table, tr[1], tr[2], tr[3])]_vars

\* the second add of a triple, with another velocity, beside another note
C9_Witness ==
    /\ lastOp = "add"
    /\ adds = 3
    /\ lastNote.velocity = 100
    /\ DOMAIN table = {0}
    /\ DOMAIN table[0] = {0}
    /\ DOMAIN table[0][0] = {60, 64}
    /\ get_note(table, 0, 0, 60).velocity = 100

\* C10: update_delta_times() on a sorted table raises no lookup failure, also
\* when the channels of adjacent time-positions differ and when the table is
\* empty, and the notes at every time-position but the last receive their
\* next_delta_ticks.
C10_NoLookupFailure ==
    (lastOp = "update" /\ IsAscending(tickOrder)) =>
        /\ ~error
        /\ \A t \in DOMAIN table : t # MaxKey(DOMAIN table) =>
               \A n \in NotesAt(table, t) :
                   n.next_delta_ticks = NextKey(DOMAIN table, t) - t

\* channel 1 has no bucket at the time-position before its note, and channel 0
\* none at the time-position after its note
C10_Witness ==
    /\ lastOp = "update"
    /\ IsAscending(tickOrder)
    /\ ~error
    /\ DOMAIN table = {1, 4}
    /\ DOMAIN table[1] = {0}
    /\ DOMAIN table[4] = {1}
    /\ \A n \in NotesAt(table, 1) : n.next_delta_ticks = 3

=============================================================================
